---- MODULE Spec2Model ----
(***************************************************************************)
(* CROUS housing monitor: the detection and validation pipeline of b.py    *)
(* (terminal version), modelled at the level of characters, text nodes and *)
(* page fetches.                                                           *)
(*                                                                         *)
(* A text is a sequence of one-character strings.  The regular expressions *)
(* of the source are evaluated on these sequences as Python's re module    *)
(* evaluates them (word boundaries, leftmost match, IGNORECASE).           *)
(***************************************************************************)
EXTENDS Integers, Sequences, FiniteSets, TLC

VARIABLES
    pc,              \* position of the operation under way
    target_city,     \* CROUSScraper.target_city (stripped, lower-cased name)
    text,            \* the text block handed to is_valid_city_match
    verdict,         \* the value is_valid_city_match returned
    page,            \* the fetched page handed to the extractor (its snippets)
    extracted,       \* the list extract_city_context returned
    nav,             \* the pagination signals of the page handed to get_total_pages
    total_pages_available,  \* the value get_total_pages returned
    max_pages,       \* settings['max_pages'], the argument of the scan
    page_num,        \* the next page of the scan's loop
    pages_to_scan,   \* min(max_pages, total_pages_available)
    results,         \* the list the scan accumulates
    fetched,         \* history: the fetches of the scan under way, in order
    ret,             \* the value the scan returned
    caller,          \* who called the scan: test_check or monitoring_loop
    printed,         \* what the caller has printed for the check under way
    prev,            \* history: the outcome of the previous check
    delays,          \* history: per fetch of the scan, the time.sleep calls after it
    monitoring,      \* CROUSMonitorTerminal.monitoring, the shared flag
    main_thread,     \* where the main thread (the menu) is
    loops,           \* the threads that run monitoring_loop, in order of creation
    interval_seconds,\* settings['interval_minutes'] * 60
    anchor_href,     \* the href attribute of the anchor chosen for an entry
    link,            \* the link built from it
    settings         \* CROUSMonitorTerminal.settings

validatorVars == <<text, verdict>>

extractVars == <<page, extracted>>

scanVars ==
    <<max_pages, page_num, pages_to_scan, results, fetched, ret, caller, printed, prev,
      delays>>

monitorVars == <<monitoring, main_thread, loops, interval_seconds>>

linkVars == <<anchor_href, link>>

\* the variables of the monitor, of the link builders and of the settings
otherVars == <<monitorVars, linkVars, settings>>

\* the variables of the scraper
scraperVars ==
    <<validatorVars, extractVars, nav, total_pages_available, scanVars>>

vars ==
    <<pc, target_city, scraperVars, otherVars>>

\* the value of a variable an operation does not use
NoReturn == [is_none |-> TRUE, value |-> <<>>]

NoOutcome == [caller |-> "", cause |-> "", returned_none |-> TRUE, printed |-> <<>>]

NoNav == [title_total |-> -1, regions |-> <<>>, results_count |-> -1, link_pages |-> {}]

ValidatorIdle == text = <<>> /\ verdict = FALSE

ExtractIdle == page = <<>> /\ extracted = <<>>

PagesIdle == nav = NoNav /\ total_pages_available = 0

ScanIdle ==
    /\ max_pages = 0
    /\ page_num = 0
    /\ pages_to_scan = 0
    /\ results = <<>>
    /\ fetched = <<>>
    /\ ret = NoReturn
    /\ caller = ""
    /\ printed = <<>>
    /\ prev = NoOutcome
    /\ delays = <<>>

NoSettings ==
    [interval_minutes |-> [kind |-> "finite", mantissa |-> 0, frac |-> 0],
     max_pages |-> 0]

MonitorIdle ==
    /\ monitoring = FALSE
    /\ main_thread = ""
    /\ loops = <<>>
    /\ interval_seconds = [kind |-> "finite", value |-> 0]

LinkIdle == anchor_href = <<>> /\ link = <<>>

SettingsIdle == settings = NoSettings

OthersIdle == MonitorIdle /\ LinkIdle /\ SettingsIdle

(***************************************************************************)
(* Bounds of the model.                                                    *)
(***************************************************************************)
\* a text block is the concatenation of at most MaxFrags fragments
MaxFrags == 4

(***************************************************************************)
(* Characters.                                                             *)
(***************************************************************************)
Digits == {"0", "1", "2", "3", "4", "5", "6", "7", "8", "9"}

DigitSeq == <<"0", "1", "2", "3", "4", "5", "6", "7", "8", "9">>

LowerSeq == <<"a", "b", "c", "d", "e", "f", "g", "h", "i", "j", "k", "l", "m",
              "n", "o", "p", "q", "r", "s", "t", "u", "v", "w", "x", "y", "z">>

UpperSeq == <<"A", "B", "C", "D", "E", "F", "G", "H", "I", "J", "K", "L", "M",
              "N", "O", "P", "Q", "R", "S", "T", "U", "V", "W", "X", "Y", "Z">>

Letters == {LowerSeq[i] : i \in 1..26} \cup {UpperSeq[i] : i \in 1..26}

\* \d of the re module
IsDigit(c) == c \in Digits

\* \w of the re module: letters, digits and the underscore
IsWordChar(c) == c \in Digits \cup Letters \cup {"_"}

\* str.lower() of one character
Lower(c) ==
    IF \E i \in 1..26 : UpperSeq[i] = c
    THEN LowerSeq[CHOOSE i \in 1..26 : UpperSeq[i] = c]
    ELSE c

\* str.upper() of one character
Upper(c) ==
    IF \E i \in 1..26 : LowerSeq[i] = c
    THEN UpperSeq[CHOOSE i \in 1..26 : LowerSeq[i] = c]
    ELSE c

\* str.lower()
LowerText(t) == [i \in 1..Len(t) |-> Lower(t[i])]

\* str.title() of a single lower-case word
Title(t) == [i \in 1..Len(t) |-> IF i = 1 THEN Upper(t[i]) ELSE t[i]]

(***************************************************************************)
(* Regular-expression primitives.                                          *)
(***************************************************************************)
\* is position i of t a word character (positions outside t are not)
IsWordAt(t, i) == i \in 1..Len(t) /\ IsWordChar(t[i])

\* \b between t[i] and t[i+1], for i in 0..Len(t)
WordBoundary(t, i) == IsWordAt(t, i) # IsWordAt(t, i + 1)

\* the literal pat matches t at position i, ignoring case
LiteralAt(pat, t, i) ==
    /\ i >= 1
    /\ i + Len(pat) - 1 <= Len(t)
    /\ \A k \in 1..Len(pat) : Lower(t[i + k - 1]) = Lower(pat[k])

\* positions where rf'\b{re.escape(city)}\b' matches t under re.IGNORECASE
CityMatches(name, t) ==
    {i \in 1..Len(t) :
        /\ LiteralAt(name, t, i)
        /\ WordBoundary(t, i - 1)
        /\ WordBoundary(t, i + Len(name) - 1)}

\* re.search(rf'\b{re.escape(city)}\b', t, re.IGNORECASE) is not None
HasCityWord(name, t) == CityMatches(name, t) # {}

\* positions where r'\b(\d{5})\b' matches t
PostalMatches(t) ==
    {i \in 1..Len(t) :
        /\ i + 4 <= Len(t)
        /\ \A k \in 0..4 : IsDigit(t[i + k])
        /\ WordBoundary(t, i - 1)
        /\ WordBoundary(t, i + 4)}

Min(S) == CHOOSE x \in S : \A y \in S : x <= y

Max(S) == CHOOSE x \in S : \A y \in S : x >= y

(***************************************************************************)
(* CROUSScraper.__init__: the postal-code table.                           *)
(***************************************************************************)
\* the two leading digits of each r'NN\d{3}' pattern
city_postal_codes ==
    [paris       |-> <<"7", "5">>,
     lyon        |-> <<"6", "9">>,
     marseille   |-> <<"1", "3">>,
     toulouse    |-> <<"3", "1">>,
     nice        |-> <<"0", "6">>,
     nantes      |-> <<"4", "4">>,
     strasbourg  |-> <<"6", "7">>,
     montpellier |-> <<"3", "4">>,
     bordeaux    |-> <<"3", "3">>,
     lille       |-> <<"5", "9">>,
     rennes      |-> <<"3", "5">>,
     reims       |-> <<"5", "1">>,
     grenoble    |-> <<"3", "8">>]

MappedCities == DOMAIN city_postal_codes

\* cities a user may configure that the table does not know
UnmappedCities == {"caen"}

TargetCities == MappedCities \cup UnmappedCities

\* the characters of a city name
CityChars ==
    [paris       |-> <<"p", "a", "r", "i", "s">>,
     lyon        |-> <<"l", "y", "o", "n">>,
     marseille   |-> <<"m", "a", "r", "s", "e", "i", "l", "l", "e">>,
     toulouse    |-> <<"t", "o", "u", "l", "o", "u", "s", "e">>,
     nice        |-> <<"n", "i", "c", "e">>,
     nantes      |-> <<"n", "a", "n", "t", "e", "s">>,
     strasbourg  |-> <<"s", "t", "r", "a", "s", "b", "o", "u", "r", "g">>,
     montpellier |-> <<"m", "o", "n", "t", "p", "e", "l", "l", "i", "e", "r">>,
     bordeaux    |-> <<"b", "o", "r", "d", "e", "a", "u", "x">>,
     lille       |-> <<"l", "i", "l", "l", "e">>,
     rennes      |-> <<"r", "e", "n", "n", "e", "s">>,
     reims       |-> <<"r", "e", "i", "m", "s">>,
     grenoble    |-> <<"g", "r", "e", "n", "o", "b", "l", "e">>,
     caen        |-> <<"c", "a", "e", "n">>]

(***************************************************************************)
(* CROUSScraper.extract_postal_code and is_valid_city_match.               *)
(***************************************************************************)
\* the match at the last position instead of the first
extract_postal_code_last(t) ==
    IF PostalMatches(t) = {} THEN <<>>
    ELSE SubSeq(t, Max(PostalMatches(t)), Max(PostalMatches(t)) + 4)

\* re.search returns the leftmost match; <<>> stands for None
extract_postal_code(t) ==
    IF PostalMatches(t) = {} THEN <<>>
    ELSE SubSeq(t, Min(PostalMatches(t)), Min(PostalMatches(t)) + 4)

\* str.startswith
StartsWith(s, prefix) ==
    /\ Len(s) >= Len(prefix)
    /\ SubSeq(s, 1, Len(prefix)) = prefix

\* the text contains the string sub
Contains(t, sub) ==
    \E i \in 1..(Len(t) - Len(sub) + 1) : SubSeq(t, i, i + Len(sub) - 1) = sub

\* re.match(r'NN\d{3}', s): anchored at the start only
MatchesPrefixPattern(prefix, s) ==
    /\ StartsWith(s, prefix)
    /\ Len(s) >= 5
    /\ \A k \in 3..5 : IsDigit(s[k])

\* any postal code is taken as confirmation, the prefix is not compared
is_valid_city_match_any_code(city, t) ==
    extract_postal_code(t) # <<>>

\* the city name alone is taken as confirmation
is_valid_city_match_name_only(city, t) ==
    \/ HasCityWord(CityChars[city], LowerText(t))
    \/ (city \in MappedCities
        /\ extract_postal_code(t) # <<>>
        /\ StartsWith(extract_postal_code(t), city_postal_codes[city]))

\* the city name is searched as a substring, not as a whole word
is_valid_city_match_substring(city, t) ==
    LET postal_code == extract_postal_code(t) IN
    IF city \in MappedCities
    THEN postal_code # <<>> /\ StartsWith(postal_code, city_postal_codes[city])
    ELSE /\ \E i \in 1..Len(t) : LiteralAt(CityChars[city], t, i)
         /\ postal_code # <<>>

\* best match: some postal code of the block has the prefix, not the first one
is_valid_city_match_best(city, t) ==
    IF city \in MappedCities
    THEN \E i \in PostalMatches(t) : SubSeq(t, i, i + 1) = city_postal_codes[city]
    ELSE /\ HasCityWord(CityChars[city], LowerText(t))
         /\ PostalMatches(t) # {}

is_valid_city_match(city, t) ==
    LET postal_code == extract_postal_code(t) IN
    IF city = "paris"
    THEN IF postal_code # <<>>
         THEN StartsWith(postal_code, <<"7", "5">>)
         ELSE FALSE
    ELSE IF city \in DOMAIN city_postal_codes /\ postal_code # <<>>
         THEN MatchesPrefixPattern(city_postal_codes[city], postal_code)
         ELSE /\ HasCityWord(CityChars[city], LowerText(t))
              /\ postal_code # <<>>

(***************************************************************************)
(* Text blocks: concatenations of fragments around the target city.        *)
(***************************************************************************)
\* a postal code of the city's own departement
GoodCode(city) ==
    IF city \in MappedCities
    THEN city_postal_codes[city] \o <<"0", "1", "3">>
    ELSE <<"1", "4", "0", "0", "0">>

\* a postal code of another departement (Essonne)
BadCode == <<"9", "1", "4", "0", "0">>

\* the capitalised name followed by a space, a space, the two codes, a letter:
\* gluing them yields names inside longer words and digit runs of other lengths
Fragments(city) ==
    {Title(CityChars[city]) \o <<" ">>, <<" ">>, GoodCode(city), BadCode, <<"x">>}

RECURSIVE Blocks(_, _)
Blocks(city, n) ==
    IF n = 0 THEN {<<>>}
    ELSE LET shorter == Blocks(city, n - 1) IN
         shorter \cup {b \o f : b \in shorter, f \in Fragments(city)}

(***************************************************************************)
(* Specification of the validator: one call on one block.                  *)
(***************************************************************************)
InitValidator ==
    /\ pc = "validate"
    /\ target_city \in TargetCities
    /\ text \in Blocks(target_city, MaxFrags)
    /\ verdict = FALSE
    /\ ExtractIdle
    /\ PagesIdle
    /\ ScanIdle
    /\ OthersIdle

Validate ==
    /\ pc = "validate"
    /\ verdict' = is_valid_city_match(target_city, text)
    /\ pc' = "validated"
    /\ UNCHANGED <<target_city, text, extractVars, nav, total_pages_available, scanVars>>
    /\ UNCHANGED otherVars

NextValidator == Validate

SpecValidator == InitValidator /\ [][NextValidator]_vars

(***************************************************************************)
(* Claims about the Match Validator (checked under SpecValidator).         *)
(***************************************************************************)
\* the 2-digit prefix of the postal code matched at position i
PrefixAt(t, i) == SubSeq(t, i, i + 1)

\* the block contains the city name as a whole word
BlockHasName == HasCityWord(CityChars[target_city], text)

\* C1 (as stated): for a mapped city, a block that contains the city name and
\* some standalone 5-digit code whose prefix differs from the mapped prefix
\* is rejected.
C1_RejectsAnyForeignCode ==
    (/\ pc = "validated"
     /\ target_city \in MappedCities
     /\ BlockHasName
     /\ \E i \in PostalMatches(text) :
            PrefixAt(text, i) # city_postal_codes[target_city])
    => verdict = FALSE

\* C1 (amended): for a mapped city, a block that contains the city name and
\* whose FIRST standalone 5-digit code has a prefix that differs from the
\* mapped prefix is rejected.
C1_RejectsFirstForeignCode ==
    (/\ pc = "validated"
     /\ target_city \in MappedCities
     /\ BlockHasName
     /\ PostalMatches(text) # {}
     /\ PrefixAt(text, Min(PostalMatches(text))) # city_postal_codes[target_city])
    => verdict = FALSE

C1_Witness ==
    /\ pc = "validated"
    /\ target_city = "paris"
    /\ BlockHasName
    /\ PostalMatches(text) # {}
    /\ PrefixAt(text, Min(PostalMatches(text))) = <<"9", "1">>
    /\ verdict = FALSE

\* C2 (as stated): for a mapped city, a block that contains the city name and
\* some standalone 5-digit code whose prefix equals the mapped prefix is
\* accepted, whatever else the block contains.
C2_AcceptsAnyOwnCode ==
    (/\ pc = "validated"
     /\ target_city \in MappedCities
     /\ BlockHasName
     /\ \E i \in PostalMatches(text) :
            PrefixAt(text, i) = city_postal_codes[target_city])
    => verdict = TRUE

\* C2 (amended): for a mapped city, a block that contains the city name and
\* whose FIRST standalone 5-digit code has the mapped prefix is accepted,
\* whatever else the block contains.
C2_AcceptsFirstOwnCode ==
    (/\ pc = "validated"
     /\ target_city \in MappedCities
     /\ BlockHasName
     /\ PostalMatches(text) # {}
     /\ PrefixAt(text, Min(PostalMatches(text))) = city_postal_codes[target_city])
    => verdict = TRUE

C2_Witness ==
    /\ pc = "validated"
    /\ target_city = "lyon"
    /\ BlockHasName
    /\ Cardinality(PostalMatches(text)) = 2
    /\ PrefixAt(text, Min(PostalMatches(text))) = <<"6", "9">>
    /\ PrefixAt(text, Max(PostalMatches(text))) = <<"9", "1">>
    /\ verdict = TRUE

\* C3: for every mapped city, a block with no standalone 5-digit sequence is
\* rejected, whether or not the city name occurs in it.
C3_NoCodeRejected ==
    (/\ pc = "validated"
     /\ target_city \in MappedCities
     /\ PostalMatches(text) = {})
    => verdict = FALSE

C3_Witness ==
    /\ pc = "validated"
    /\ target_city \in MappedCities \ {"paris"}
    /\ BlockHasName
    /\ PostalMatches(text) = {}
    /\ \E i \in 1..Len(text) : IsDigit(text[i])
    /\ verdict = FALSE

\* C4: for a city without a prefix mapping, a block is accepted if and only
\* if the city name occurs in it as a whole word (case-insensitive) and it
\* contains a standalone 5-digit code.
C4_UnmappedNameAndCode ==
    (/\ pc = "validated"
     /\ target_city \notin MappedCities)
    => (verdict = (BlockHasName /\ PostalMatches(text) # {}))

C4_Witness ==
    /\ pc = "validated"
    /\ target_city \notin MappedCities
    /\ BlockHasName
    /\ PostalMatches(text) # {}
    /\ PrefixAt(text, Min(PostalMatches(text))) = <<"9", "1">>
    /\ verdict = TRUE

\* C21: first-match policy: for a mapped city the validator accepts a block
\* exactly when the block has a standalone 5-digit sequence and the first one
\* starts with the city's prefix; the codes after the first and the presence
\* of the city name never change the verdict.
C21_FirstMatchPolicy ==
    (/\ pc = "validated"
     /\ target_city \in MappedCities)
    => verdict = (/\ PostalMatches(text) # {}
                  /\ PrefixAt(text, Min(PostalMatches(text)))
                        = city_postal_codes[target_city])

\* a foreign code first, the city's own code after it, no city name: rejected
C21_Witness ==
    /\ pc = "validated"
    /\ target_city = "nice"
    /\ ~BlockHasName
    /\ Cardinality(PostalMatches(text)) = 2
    /\ PrefixAt(text, Min(PostalMatches(text))) = <<"9", "1">>
    /\ PrefixAt(text, Max(PostalMatches(text))) = <<"0", "6">>
    /\ verdict = FALSE

(***************************************************************************)
(* Parsed markup (the "soup").  A page is the sequence of its nodes in     *)
(* document order; every node names its parent by position (0 is the       *)
(* document itself).  A text node has tag "#text" and carries its string;  *)
(* an element carries its tag, its class and, for an anchor, its href.     *)
(***************************************************************************)
\* an anchor without a href, or with an empty one: get('href') is falsy
NoHref == <<>>

Elem(tag, parent, cls, href) ==
    [tag |-> tag, parent |-> parent, cls |-> cls, href |-> href, str |-> <<>>]

TextNode(parent, str) ==
    [tag |-> "#text", parent |-> parent, cls |-> "", href |-> NoHref, str |-> str]

\* what element.decompose() leaves at the position of a removed node
Removed ==
    [tag |-> "#removed", parent |-> 0, cls |-> "", href |-> NoHref, str |-> <<>>]

\* the positions of the ancestors of node i
RECURSIVE Ancestors(_, _)
Ancestors(dom, i) ==
    IF i = 0 \/ dom[i].parent = 0 THEN {}
    ELSE {dom[i].parent} \cup Ancestors(dom, dom[i].parent)

\* node i lies inside element e (every node lies inside the document, 0)
IsDescendant(dom, i, e) == e = 0 \/ e \in Ancestors(dom, i)

IsText(dom, i) == dom[i].tag = "#text"

IsElement(dom, i) == dom[i].tag \notin {"#text", "#removed"}

\* str.strip() and the separators of str.split()
Whitespace == {" ", "\n", "\t"}

\* str.strip()
Strip(t) ==
    LET solid == {i \in 1..Len(t) : t[i] \notin Whitespace} IN
    IF solid = {} THEN <<>> ELSE SubSeq(t, Min(solid), Max(solid))

\* ' '.join(t.split()): runs of whitespace become one space, none at the ends
CollapseWhitespace(t) ==
    LET u == Strip(t)
        marked == [i \in 1..Len(u) |->
                     [c |-> IF u[i] \in Whitespace THEN " " ELSE u[i],
                      keep |-> u[i] \notin Whitespace \/ u[i - 1] \notin Whitespace]]
        kept == SelectSeq(marked, LAMBDA m : m.keep)
    IN [i \in 1..Len(kept) |-> kept[i].c]

\* t[:n]
Truncate(t, n) == IF Len(t) <= n THEN t ELSE SubSeq(t, 1, n)

\* the strings of the text nodes inside e from position i on, joined without
\* a separator; with strip each string is stripped first
RECURSIVE JoinStrings(_, _, _, _)
JoinStrings(dom, e, strip, i) ==
    IF i > Len(dom) THEN <<>>
    ELSE (IF IsText(dom, i) /\ IsDescendant(dom, i, e)
          THEN (IF strip THEN Strip(dom[i].str) ELSE dom[i].str)
          ELSE <<>>) \o JoinStrings(dom, e, strip, i + 1)

\* Tag.get_text() and Tag.get_text(strip=True)
get_text(dom, e, strip) == JoinStrings(dom, e, strip, 1)

\* Tag.find(tag): the first element with that tag inside e (0: there is none)
Find(dom, e, tag) ==
    LET hits == {i \in 1..Len(dom) :
                   IsElement(dom, i) /\ dom[i].tag = tag /\ IsDescendant(dom, i, e) /\ i # e}
    IN IF hits = {} THEN 0 ELSE Min(hits)

\* Tag.find_previous(tag): the nearest element with that tag before e
FindPrevious(dom, e, tag) ==
    LET hits == {i \in 1..Len(dom) : IsElement(dom, i) /\ dom[i].tag = tag /\ i < e}
    IN IF hits = {} THEN 0 ELSE Max(hits)

\* Tag.find_next(tag): the nearest element with that tag after the start of e
FindNext(dom, e, tag) ==
    LET hits == {i \in 1..Len(dom) : IsElement(dom, i) /\ dom[i].tag = tag /\ i > e}
    IN IF hits = {} THEN 0 ELSE Min(hits)

\* Tag.find_parent(tag): the nearest ancestor with that tag
FindParent(dom, e, tag) ==
    LET hits == {i \in Ancestors(dom, e) : dom[i].tag = tag}
    IN IF hits = {} THEN 0 ELSE Max(hits)

(***************************************************************************)
(* CROUSScraper.remove_only_search_elements.                               *)
(***************************************************************************)
\* the classes the class selectors of the cleaner match
SearchClasses ==
    {"search-suggestions", "autocomplete", "search-form", "search-bar", "search-input"}

\* the element is matched by one of the selectors
MatchesSearchSelector(node) ==
    \/ node.cls \in SearchClasses
    \/ node.tag \in {"script", "style"}

\* every matched element is decomposed, with all that it contains
remove_only_search_elements(dom) ==
    [i \in 1..Len(dom) |->
        IF \E a \in Ancestors(dom, i) \cup {i} :
               dom[a].tag # "#text" /\ MatchesSearchSelector(dom[a])
        THEN Removed
        ELSE dom[i]]

(***************************************************************************)
(* CROUSScraper.check_for_city_anywhere and extract_city_context.          *)
(***************************************************************************)
\* context = element_text[:400]
ContextLimit == 400

\* key = (title, context[:100])
KeyLimit == 100

\* len(context) > 10
MinContext == 10

\* unique_contexts[:5]
PageCap == 5

HeadingTags == <<"h1", "h2", "h3", "h4", "h5", "h6">>

Unknown == <<"U", "n", "k", "n", "o", "w", "n">>

\* "https://trouverunlogement.lescrous.fr"
base_url ==
    <<"h", "t", "t", "p", "s", ":", "/", "/", "t", "r", "o", "u", "v", "e",
      "r", "u", "n", "l", "o", "g", "e", "m", "e", "n", "t", ".", "l", "e",
      "s", "c", "r", "o", "u", "s", ".", "f", "r">>

\* the url begins with a scheme: letters up to a colon
HasScheme(url) ==
    \E i \in 2..Len(url) :
        /\ url[i] = ":"
        /\ \A k \in 1..(i - 1) : url[k] \in Letters

\* urllib.parse.urljoin(base, url) for a base without a path and a url
\* without query, parameters, dot segments or empty path segments: a url
\* with a scheme and a host is returned as it is; a lone # adds nothing; a
\* fragment and a path that starts at the root are appended to the base; any
\* other path is appended after a /
urljoin(base, url) ==
    IF url = <<>> THEN base
    ELSE IF HasScheme(url) THEN url
    ELSE IF url = <<"#">> THEN base
    ELSE IF url[1] \in {"#", "/"} THEN base \o url
    ELSE base \o <<"/">> \o url

check_for_city_anywhere(city, soup) ==
    LET cleaned_soup == remove_only_search_elements(soup)
        all_text == get_text(cleaned_soup, 0, FALSE)
    IN IF ~HasCityWord(CityChars[city], all_text)
       THEN FALSE
       ELSE is_valid_city_match(city, all_text)

\* title_elem for one heading tag: inside parent, else before it, else after it
TitleElem(dom, parent, tag) ==
    IF Find(dom, parent, tag) # 0 THEN Find(dom, parent, tag)
    ELSE IF parent # 0 /\ FindPrevious(dom, parent, tag) # 0
         THEN FindPrevious(dom, parent, tag)
         ELSE FindNext(dom, parent, tag)

\* the title is only looked for inside the container
TitleOf_inside(dom, parent) ==
    LET found == {k \in 1..Len(HeadingTags) : Find(dom, parent, HeadingTags[k]) # 0}
    IN IF found = {} THEN Unknown
       ELSE get_text(dom, Find(dom, parent, HeadingTags[Min(found)]), TRUE)

\* the loop over h1..h6 that stops at the first tag with a title_elem
TitleOf(dom, parent) ==
    LET found == {k \in 1..Len(HeadingTags) : TitleElem(dom, parent, HeadingTags[k]) # 0}
    IN IF found = {} THEN Unknown
       ELSE get_text(dom, TitleElem(dom, parent, HeadingTags[Min(found)]), TRUE)

\* link_elem = parent.find('a') or parent.find_parent('a'), resolved if it has a href
LinkOf(dom, parent) ==
    LET link_elem == IF Find(dom, parent, "a") # 0 THEN Find(dom, parent, "a")
                     ELSE IF parent # 0 THEN FindParent(dom, parent, "a") ELSE 0
    IN IF link_elem # 0 /\ dom[link_elem].href # <<>>
       THEN urljoin(base_url, dom[link_elem].href)
       ELSE <<>>

\* the text nodes find_all(text=re.compile(pattern, re.IGNORECASE)) returns
CityTextNodes(city, dom) ==
    SelectSeq([i \in 1..Len(dom) |-> i],
              LAMBDA i : IsText(dom, i) /\ HasCityWord(CityChars[city], dom[i].str))

\* the context of a container without the cut at 400 characters
ContextOf_uncut(element_text) ==
    CollapseWhitespace(Strip(element_text))

\* the context of a container: truncated, stripped, whitespace collapsed
ContextOf(element_text) ==
    CollapseWhitespace(Strip(Truncate(element_text, ContextLimit)))

\* the candidate entry of one text node: <<>> when it is skipped, else <<entry>>
Candidate(city, dom, i) ==
    LET parent == dom[i].parent
        element_text == get_text(dom, parent, TRUE)
        context == ContextOf(element_text)
    IN IF ~is_valid_city_match(city, element_text) THEN <<>>
       ELSE IF Len(context) > MinContext
            THEN <<[title |-> TitleOf(dom, parent),
                    link |-> LinkOf(dom, parent),
                    context |-> context,
                    page_url |-> ""]>>
            ELSE <<>>

RECURSIVE Candidates(_, _, _, _)
Candidates(city, dom, nodes, k) ==
    IF k > Len(nodes) THEN <<>>
    ELSE Candidate(city, dom, nodes[k]) \o Candidates(city, dom, nodes, k + 1)

\* the dedup key of an entry
DedupKey(ctx) == <<ctx.title, Truncate(ctx.context, KeyLimit)>>

\* the first entry of every key, in the order of first appearance
Unique(contexts) ==
    LET firsts == [k \in 1..Len(contexts) |->
                     [ctx |-> contexts[k],
                      first |-> \A j \in 1..(k - 1) :
                                   DedupKey(contexts[j]) # DedupKey(contexts[k])]]
        kept == SelectSeq(firsts, LAMBDA f : f.first)
    IN [k \in 1..Len(kept) |-> kept[k].ctx]

\* every unique entry is returned, however many there are
extract_city_context_uncapped(city, soup) ==
    LET cleaned_soup == remove_only_search_elements(soup)
        all_elements == CityTextNodes(city, cleaned_soup)
    IN Unique(Candidates(city, cleaned_soup, all_elements, 1))

extract_city_context(city, soup) ==
    LET cleaned_soup == remove_only_search_elements(soup)
        all_elements == CityTextNodes(city, cleaned_soup)
        contexts == Candidates(city, cleaned_soup, all_elements, 1)
    IN Truncate(Unique(contexts), PageCap)

(***************************************************************************)
(* Pages: a page is a sequence of snippets of markup around the city.      *)
(***************************************************************************)
Rep(c, n) == [i \in 1..n |-> c]

SnippetNames ==
    {"listing", "foreign", "glued", "long", "heading", "linked", "script",
     "plain", "spaced", "studio"}

\* "Residence du Lac"; the accented letter is written e (a word character
\* like it) and the dash of the listing is written - (no word character)
ResidenceDuLac ==
    <<"R", "e", "s", "i", "d", "e", "n", "c", "e", " ", "d", "u", " ", "L", "a", "c">>

\* a second postal code of the city's own departement
LacCode(city) == SubSeq(GoodCode(city), 1, 2) \o <<"0", "1", "5">>

\* the nodes of a snippet; parents are positions inside the snippet
Snippet(city, name) ==
    LET N == Title(CityChars[city])
        G == GoodCode(city)
        sp == <<" ">>
    IN CASE name = "listing" ->
              \* <div>Paris 75013 libre</div>
              <<Elem("div", 0, "card", NoHref),
                TextNode(1, N \o sp \o G \o <<" ", "l", "i", "b", "r", "e">>)>>
         [] name = "foreign" ->
              \* <div>Paris Saclay 91400</div>
              <<Elem("div", 0, "card", NoHref),
                TextNode(1, N \o <<" ", "S", "a", "c", "l", "a", "y", " ">> \o BadCode)>>
         [] name = "glued" ->
              \* <p>Paris<b>Sud</b> - 75013 ok</p>
              <<Elem("p", 0, "", NoHref),
                TextNode(1, N),
                Elem("b", 1, "", NoHref),
                TextNode(3, <<"S", "u", "d">>),
                TextNode(1, <<" ", "-", " ">> \o G \o <<" ", "o", "k">>)>>
         [] name = "long" ->
              \* <div>xxx...x Paris 75013</div>, the name after the 400th character
              <<Elem("div", 0, "card", NoHref),
                TextNode(1, Rep("x", ContextLimit) \o sp \o N \o sp \o G)>>
         [] name = "heading" ->
              \* <h2>Residence</h2>
              <<Elem("h2", 0, "", NoHref),
                TextNode(1, <<"R", "e", "s", "i", "d", "e", "n", "c", "e">>)>>
         [] name = "linked" ->
              \* <a href="/logement/12"><span>Paris 75013</span></a>
              <<Elem("a", 0, "", <<"/", "l", "o", "g", "e", "m", "e", "n", "t", "/", "1", "2">>),
                Elem("span", 1, "", NoHref),
                TextNode(2, N \o sp \o G)>>
         [] name = "script" ->
              \* <script>Paris 75013 libre</script>
              <<Elem("script", 0, "", NoHref),
                TextNode(1, N \o sp \o G \o <<" ", "l", "i", "b", "r", "e">>)>>
         [] name = "spaced" ->
              \* <div>\n  Paris \n 75013   libre \n</div>
              <<Elem("div", 0, "card", NoHref),
                TextNode(1, <<"\n", " ", " ">> \o N \o <<" ", "\n", " ">> \o G
                            \o <<" ", " ", " ", "l", "i", "b", "r", "e", " ", "\n">>)>>
         [] name = "residence" ->
              \* <div>Residence du Lac - Paris 75015, disponible</div>
              <<Elem("div", 0, "card", NoHref),
                TextNode(1, ResidenceDuLac \o <<" ", "-", " ">> \o N \o sp \o LacCode(city)
                            \o <<",", " ", "d", "i", "s", "p", "o", "n", "i", "b", "l", "e">>)>>
         [] name = "page_title" ->
              \* <title>Residence du Lac</title>
              <<Elem("title", 0, "", NoHref),
                TextNode(1, ResidenceDuLac)>>
         [] name = "lac_heading" ->
              \* <h1>Residence du Lac</h1>
              <<Elem("h1", 0, "", NoHref),
                TextNode(1, ResidenceDuLac)>>
         [] name = "studio" ->
              \* <li><h3>Studio</h3>Paris 75013 meuble</li>
              <<Elem("li", 0, "", NoHref),
                Elem("h3", 1, "", NoHref),
                TextNode(2, <<"S", "t", "u", "d", "i", "o">>),
                TextNode(1, N \o sp \o G \o <<" ", "m", "e", "u", "b", "l", "e">>)>>
         [] name = "gap" ->
              \* the line break between two elements of the markup
              <<TextNode(0, <<"\n">>)>>
         [] OTHER ->
              \* <div>aucun logement</div>
              <<Elem("div", 0, "", NoHref),
                TextNode(1, <<"a", "u", "c", "u", "n", " ",
                              "l", "o", "g", "e", "m", "e", "n", "t">>)>>

\* the nodes of a snippet placed after `offset` earlier nodes
Shifted(nodes, offset) ==
    [i \in 1..Len(nodes) |->
        [nodes[i] EXCEPT !.parent = IF @ = 0 THEN 0 ELSE @ + offset]]

\* the soup of the page made of the snippets `names`
RECURSIVE Dom(_, _)
Dom(city, names) ==
    IF names = <<>> THEN <<>>
    ELSE LET before == Dom(city, SubSeq(names, 1, Len(names) - 1))
         IN before \o Shifted(Snippet(city, names[Len(names)]), Len(before))

\* the pages of at most n snippets
RECURSIVE PagesUpTo(_)
PagesUpTo(n) ==
    IF n = 0 THEN {<<>>}
    ELSE LET shorter == PagesUpTo(n - 1) IN
         shorter \cup {pg \o <<name>> : pg \in shorter, name \in SnippetNames}

\* a page has at most MaxSnippets snippets
MaxSnippets == 2

\* the cities the extractor is run for: the special-cased one, one of the
\* table, one the table does not know
ExtractCities == {"paris", "lyon", "caen"}

(***************************************************************************)
(* Specification of the extractor: one call on one page.                   *)
(***************************************************************************)
InitExtract ==
    /\ pc = "extract"
    /\ target_city \in ExtractCities
    /\ page \in PagesUpTo(MaxSnippets)
    /\ extracted = <<>>
    /\ ValidatorIdle
    /\ PagesIdle
    /\ ScanIdle
    /\ OthersIdle

Extract ==
    /\ pc = "extract"
    /\ extracted' = extract_city_context(target_city, Dom(target_city, page))
    /\ pc' = "extracted"
    /\ UNCHANGED <<target_city, page, validatorVars, nav, total_pages_available, scanVars>>
    /\ UNCHANGED otherVars

NextExtract == Extract

SpecExtract == InitExtract /\ [][NextExtract]_vars

\* C5: every entry the Context Extractor returns has a context that contains
\* the target city name as a whole word, case-insensitive.
C5_ContextHasCity ==
    pc = "extracted" =>
        \A k \in 1..Len(extracted) :
            HasCityWord(CityChars[target_city], extracted[k].context)

\* the text has no whitespace at its ends and no whitespace but single spaces
IsCollapsed(t) ==
    /\ \A i \in 1..Len(t) : t[i] \in Whitespace => t[i] = " "
    /\ \A i \in 1..(Len(t) - 1) : ~(t[i] = " " /\ t[i + 1] = " ")
    /\ t # <<>> => (t[1] # " " /\ t[Len(t)] # " ")

\* C15: every context the Context Extractor produces has at most 400
\* characters and collapsed whitespace: none at the ends, and every run of
\* whitespace inside is exactly one space.
C15_ContextBoundedCollapsed ==
    pc = "extracted" =>
        \A k \in 1..Len(extracted) :
            /\ Len(extracted[k].context) <= ContextLimit
            /\ IsCollapsed(extracted[k].context)

\* a page with a container of more than 400 characters and one whose text
\* has runs of blanks and line breaks, both extracted
C15_Witness ==
    /\ pc = "extracted"
    /\ page = <<"long", "spaced">>
    /\ Len(extracted) = 2
    /\ Len(extracted[1].context) = ContextLimit
    /\ \E i \in 1..Len(extracted[2].context) : extracted[2].context[i] = " "

\* node i is a heading element
IsHeading(dom, i) ==
    IsElement(dom, i) /\ \E k \in 1..Len(HeadingTags) : dom[i].tag = HeadingTags[k]

\* the title the claim gives the container: a heading inside it if there is
\* one, else the nearest heading before it, else the nearest after it, else
\* "Unknown"
IsClaimedTitle(dom, parent, title) ==
    LET headings == {h \in 1..Len(dom) : IsHeading(dom, h)}
        inside == {h \in headings : IsDescendant(dom, h, parent) /\ h # parent}
        before == {h \in headings : h < parent}
        after == {h \in headings : h > parent}
    IN IF inside # {} THEN \E h \in inside : title = get_text(dom, h, TRUE)
       ELSE IF before # {} THEN title = get_text(dom, Max(before), TRUE)
       ELSE IF after # {} THEN title = get_text(dom, Min(after), TRUE)
       ELSE title = Unknown

\* C25: the title of an entry is a heading found inside its container
\* whenever the container contains a heading of any level; the nearest
\* preceding heading only when it contains none, the nearest following one
\* only when none precedes, and "Unknown" only on a page without headings.
C25_TitleFromContainer ==
    pc = "extracted" =>
        LET dom == remove_only_search_elements(Dom(target_city, page)) IN
        \A k \in 1..Len(extracted) :
            \A i \in 1..Len(dom) :
                (/\ IsText(dom, i)
                 /\ HasCityWord(CityChars[target_city], dom[i].str)
                 /\ Candidate(target_city, dom, i) = <<extracted[k]>>)
                => IsClaimedTitle(dom, dom[i].parent, extracted[k].title)

\* C26: the context stored in every entry the Context Extractor returns,
\* truncated and whitespace-collapsed as it is stored, itself passes the
\* Match Validator, whatever the length of the container.
C26_StoredContextValid ==
    pc = "extracted" =>
        \A k \in 1..Len(extracted) :
            is_valid_city_match(target_city, extracted[k].context)

(***************************************************************************)
(* CROUSScraper.get_total_pages.  The page is given by what the four       *)
(* patterns read from it:                                                  *)
(*   title_total    M of 'page N sur M' in the <title>, -1 without a match *)
(*   regions        for every pagination selector that selects something,  *)
(*                  in the order of the selectors, the elements selected,  *)
(*                  in document order, each given by the set of its        *)
(*                  numeric labels (decimal digits)                        *)
(*   results_count  N of 'N resultats' in the page text, -1 without a match*)
(*   link_pages     the N of every href with a page=N parameter            *)
(***************************************************************************)
\* estimated_pages = (total_results + 19) // 20
ResultsPerPage == 20

\* min(estimated_pages, 10)
EstimateCap == 10

\* the selectors from position k on: pagination[0] is the first element a
\* selector selects; the maximum of the first pagination[0] with a label
RECURSIVE FirstRegionMax(_, _)
FirstRegionMax(regions, k) ==
    IF k > Len(regions) THEN -1
    ELSE IF regions[k][1] # {} THEN Max(regions[k][1])
         ELSE FirstRegionMax(regions, k + 1)

\* the largest of the values the four patterns give, not the first
get_total_pages_largest(n) ==
    Max({n.title_total,
         FirstRegionMax(n.regions, 1),
         IF n.results_count # -1
         THEN Min({(n.results_count + (ResultsPerPage - 1)) \div ResultsPerPage,
                   EstimateCap})
         ELSE -1,
         Max(n.link_pages \cup {1})})

get_total_pages(n) ==
    IF n.title_total # -1
    THEN n.title_total
    ELSE IF FirstRegionMax(n.regions, 1) # -1
         THEN FirstRegionMax(n.regions, 1)
         ELSE IF n.results_count # -1
              THEN Min({(n.results_count + (ResultsPerPage - 1)) \div ResultsPerPage,
                        EstimateCap})
              ELSE LET max_page == Max(n.link_pages \cup {1})
                   IN IF max_page > 1 THEN max_page ELSE 1

\* page numbers and labels on a page go up to MaxLabel
MaxLabel == 3

\* the numeric labels of one pagination region
LabelSets == {{}, {0}} \cup {1..m : m \in 1..MaxLabel}

\* the result counts a page may announce
ResultCounts == {0, 1, 20, 21, 200, 201, 500}

\* the elements one selector selects: one or two
Selections ==
    {<<a>> : a \in LabelSets} \cup {<<a, b>> : a \in LabelSets, b \in LabelSets}

\* the page numbers the hrefs of a page name
LinkSets == {{}, {0}} \cup {1..m : m \in 1..MaxLabel} \cup {0..m : m \in 1..MaxLabel}

Navs ==
    [title_total : {-1} \cup 0..MaxLabel,
     regions : {<<>>} \cup {<<s>> : s \in Selections}
                      \cup {<<s, t>> : s \in Selections, t \in Selections},
     results_count : {-1} \cup ResultCounts,
     link_pages : LinkSets]

(***************************************************************************)
(* Specification of the pagination estimator: one call on one page.        *)
(***************************************************************************)
InitPages ==
    /\ pc = "estimate"
    /\ target_city = "paris"
    /\ nav \in Navs
    /\ total_pages_available = 0
    /\ ValidatorIdle
    /\ ExtractIdle
    /\ ScanIdle
    /\ OthersIdle

Estimate ==
    /\ pc = "estimate"
    /\ total_pages_available' = get_total_pages(nav)
    /\ pc' = "estimated"
    /\ UNCHANGED <<target_city, validatorVars, extractVars, nav, scanVars>>
    /\ UNCHANGED otherVars

NextPages == Estimate

SpecPages == InitPages /\ [][NextPages]_vars

\* C7: the Pagination Estimator returns a page count >= 1 for every page,
\* whichever of the four signals produces the value.
C7_AtLeastOnePage ==
    pc = "estimated" => total_pages_available >= 1

\* ceil(N / 20), capped at 10
CappedEstimate(count) ==
    LET pages == IF count % ResultsPerPage = 0
                 THEN count \div ResultsPerPage
                 ELSE count \div ResultsPerPage + 1
    IN IF pages > EstimateCap THEN EstimateCap ELSE pages

\* the numeric labels of all the pagination elements the selectors select
AllLabels(n) ==
    UNION {n.regions[k][e] : <<k, e>> \in {x \in (1..Len(n.regions)) \X (1..2) :
                                               x[2] <= Len(n.regions[x[1]])}}

\* the numeric labels of the first selector, in order, whose first element
\* has one (none if there is no such selector)
LocatedLabels(n) ==
    LET with == {k \in 1..Len(n.regions) : n.regions[k][1] # {}}
    IN IF with = {} THEN {} ELSE n.regions[Min(with)][1]

Returned(list) ==
    IF list # <<>> THEN [is_none |-> FALSE, value |-> list] ELSE NoReturn

\* for ctx in contexts: ctx['page_number'] = n
WithPageNumber(contexts, n) ==
    [k \in 1..Len(contexts) |->
        [title |-> contexts[k].title,
         link |-> contexts[k].link,
         context |-> contexts[k].context,
         page_url |-> contexts[k].page_url,
         page_number |-> n]]

\* the entries of one fetched page: none unless the page passes the gate
PageEntries(city, content) ==
    IF check_for_city_anywhere(city, Dom(city, content))
    THEN extract_city_context(city, Dom(city, content))
    ELSE <<>>

\* settings['max_pages'] is at most MaxPagesSetting
MaxPagesSetting == 3

\* the cities the scan is run for
ScanCities == {"paris", "caen"}

\* the pages the site serves
ScanPool ==
    {<<"listing">>, <<"plain">>, <<"foreign", "gap", "listing">>, <<"heading", "listing">>,
     <<"page_title", "residence">>, <<"lac_heading", "residence">>,
     <<"heading", "listing", "linked", "glued", "studio", "residence", "long">>}

\* the pagination signals of the first page the site serves
ScanNavs ==
    {NoNav,
     [NoNav EXCEPT !.title_total = 0],
     [NoNav EXCEPT !.regions = <<<<1..MaxLabel>>>>],
     [NoNav EXCEPT !.results_count = 21],
     [NoNav EXCEPT !.results_count = 500]}

\* the gate and the entries of every page the site serves
Gate ==
    [city \in ScanCities, content \in ScanPool |->
        check_for_city_anywhere(city, Dom(city, content))]

Entries ==
    [city \in ScanCities, content \in ScanPool |-> PageEntries(city, content)]

\* what one fetched page adds to results
PageContribution(city, content, n) == WithPageNumber(Entries[city, content], n)

\* str(n) for a natural number
RECURSIVE Decimal(_)
Decimal(n) ==
    IF n < 10 THEN <<DigitSeq[n + 1]>>
    ELSE Decimal(n \div 10) \o <<DigitSeq[(n % 10) + 1]>>

\* "https://trouverunlogement.lescrous.fr/tools/42/search"
main_search_url ==
    base_url \o <<"/", "t", "o", "o", "l", "s", "/", "4", "2", "/",
                  "s", "e", "a", "r", "c", "h">>

\* f"{self.main_search_url}?page={page_num}"
page_url(n) == main_search_url \o <<"?", "p", "a", "g", "e", "=">> \o Decimal(n)

\* the record of one fetch in the history
Fetch(n, url, ok, content, city) ==
    [page_num |-> n, url |-> url, ok |-> ok, content |-> content,
     extracted |-> ok /\ Gate[city, content]]

\* why the finished scan returned what it returned
Cause ==
    IF ~fetched[1].ok THEN "fetch_failed"
    ELSE IF ret.is_none THEN "zero_matches"
    ELSE "matches"

\* what the user can observe of the finished check
CurrentOutcome ==
    [caller |-> caller,
     cause |-> Cause,
     returned_none |-> ret.is_none,
     printed |-> printed]

Init ==
    /\ pc = "idle"
    /\ target_city \in ScanCities
    /\ max_pages \in 1..MaxPagesSetting
    /\ page_num = 0
    /\ pages_to_scan = 0
    /\ results = <<>>
    /\ fetched = <<>>
    /\ ret = NoReturn
    /\ caller = ""
    /\ printed = <<>>
    /\ prev = NoOutcome
    /\ delays = <<>>
    /\ ValidatorIdle
    /\ ExtractIdle
    /\ PagesIdle
    /\ OthersIdle

\* a check starts: the scan is called and sets results = []
ScanCalled ==
    /\ pc \in {"idle", "reported"}
    /\ prev' = IF pc = "reported" THEN CurrentOutcome ELSE prev
    /\ results' = <<>>
    /\ fetched' = <<>>
    /\ ret' = NoReturn
    /\ page_num' = 1
    /\ pages_to_scan' = 0
    /\ total_pages_available' = 0
    /\ pc' = "fetch_first"
    /\ UNCHANGED <<target_city, max_pages, validatorVars, extractVars, nav>>
    /\ delays' = <<>>
    /\ UNCHANGED otherVars

\* menu choice 4
StartTestCheck ==
    /\ caller' = "test_check"
    /\ printed' = <<"Starting test check", "Scanning up to max_pages pages", "STRICT mode">>
    /\ ScanCalled

\* one iteration of the monitoring loop
StartScheduledCheck ==
    /\ caller' = "monitoring_loop"
    /\ printed' = <<"Starting scheduled check...">>
    /\ ScanCalled

\* the first page cannot be fetched, yet the scan goes on to the page loop
FetchFirstFail_continue ==
    /\ pc = "fetch_first"
    /\ fetched' = <<Fetch(1, main_search_url, FALSE, <<>>, target_city)>>
    /\ total_pages_available' = MaxPagesSetting
    /\ pages_to_scan' = max_pages
    /\ page_num' = 2
    /\ pc' = "scan_pages"
    /\ UNCHANGED <<target_city, max_pages, results, ret, caller, printed, prev,
                   validatorVars, extractVars, nav>>
    /\ delays' = <<0>>
    /\ UNCHANGED otherVars

\* fetch_page_content returns None for the first page: return None
FetchFirstFail ==
    /\ pc = "fetch_first"
    /\ fetched' = <<Fetch(1, main_search_url, FALSE, <<>>, target_city)>>
    /\ ret' = NoReturn
    /\ pc' = "returned"
    /\ UNCHANGED <<target_city, max_pages, page_num, pages_to_scan, results, caller,
                   printed, prev, total_pages_available, validatorVars, extractVars, nav>>
    /\ delays' = <<0>>
    /\ UNCHANGED otherVars

\* the first page is fetched and the page count is not bounded by max_pages
FetchFirstOk_uncapped ==
    /\ pc = "fetch_first"
    /\ \E n \in ScanNavs, content \in ScanPool :
          /\ total_pages_available' = get_total_pages(n)
          /\ pages_to_scan' = get_total_pages(n)
          /\ results' = results \o PageContribution(target_city, content, 1)
          /\ fetched' = <<Fetch(1, main_search_url, TRUE, content, target_city)>>
    /\ page_num' = 2
    /\ pc' = "scan_pages"
    /\ UNCHANGED <<target_city, max_pages, ret, caller, printed, prev,
                   validatorVars, extractVars, nav>>
    /\ delays' = <<0>>
    /\ UNCHANGED otherVars

\* the first page is fetched: pages are counted and page 1 is scanned
FetchFirstOk ==
    /\ pc = "fetch_first"
    /\ \E n \in ScanNavs, content \in ScanPool :
          /\ total_pages_available' = get_total_pages(n)
          /\ pages_to_scan' = Min({max_pages, get_total_pages(n)})
          /\ results' = results \o PageContribution(target_city, content, 1)
          /\ fetched' = <<Fetch(1, main_search_url, TRUE, content, target_city)>>
    /\ page_num' = 2
    /\ pc' = "scan_pages"
    /\ UNCHANGED <<target_city, max_pages, ret, caller, printed, prev,
                   validatorVars, extractVars, nav>>
    /\ delays' = <<0>>
    /\ UNCHANGED otherVars

\* a later page cannot be fetched and the loop ends there
ScanPageFail_break ==
    /\ pc = "scan_pages"
    /\ page_num <= pages_to_scan
    /\ fetched' = Append(fetched, Fetch(page_num, page_url(page_num), FALSE, <<>>, target_city))
    /\ page_num' = pages_to_scan + 1
    /\ UNCHANGED <<pc, target_city, max_pages, pages_to_scan, results, ret, caller,
                   printed, prev, total_pages_available, validatorVars, extractVars, nav>>
    /\ delays' = Append(delays, 0)
    /\ UNCHANGED otherVars

\* fetch_page_content returns None for a later page: continue
ScanPageFail ==
    /\ pc = "scan_pages"
    /\ page_num <= pages_to_scan
    /\ fetched' = Append(fetched, Fetch(page_num, page_url(page_num), FALSE, <<>>, target_city))
    /\ page_num' = page_num + 1
    /\ UNCHANGED <<pc, target_city, max_pages, pages_to_scan, results, ret, caller,
                   printed, prev, total_pages_available, validatorVars, extractVars, nav>>
    /\ delays' = Append(delays, 0)
    /\ UNCHANGED otherVars

\* a later page is fetched and scanned
ScanPageOk ==
    /\ pc = "scan_pages"
    /\ page_num <= pages_to_scan
    /\ \E content \in ScanPool :
          /\ results' = results \o PageContribution(target_city, content, page_num)
          /\ fetched' = Append(fetched, Fetch(page_num, page_url(page_num), TRUE, content, target_city))
    /\ page_num' = page_num + 1
    /\ UNCHANGED <<pc, target_city, max_pages, pages_to_scan, ret, caller,
                   printed, prev, total_pages_available, validatorVars, extractVars, nav>>
    /\ delays' = Append(delays, 0)
    /\ UNCHANGED otherVars

\* the loop is over: return results if results else None
ScanReturn ==
    /\ pc = "scan_pages"
    /\ page_num > pages_to_scan
    /\ ret' = Returned(results)
    /\ pc' = "returned"
    /\ UNCHANGED <<target_city, max_pages, page_num, pages_to_scan, results, fetched,
                   caller, printed, prev, total_pages_available, validatorVars,
                   extractVars, nav>>
    /\ UNCHANGED <<delays, otherVars>>

\* what the caller prints once the alert was sent, or could not be sent
FoundMessages(who, sent) ==
    IF who = "test_check"
    THEN <<"found in VALID listing(s)",
           IF sent THEN "Telegram notification sent!"
                   ELSE "Failed to send Telegram message">>
    ELSE <<IF sent THEN "found! Telegram notification sent."
                   ELSE "found but failed to send Telegram message",
           "Next check at">>

\* what the caller prints when the scan returned nothing
NothingMessages(who) ==
    IF who = "test_check"
    THEN <<"No VALID listings found (false positives filtered out)">>
    ELSE <<"No valid listings (false positives filtered)", "Next check at">>

\* `if results:` the alert is formatted and sent
ReportFound ==
    /\ pc = "returned"
    /\ ~ret.is_none
    /\ \E sent \in BOOLEAN : printed' = printed \o FoundMessages(caller, sent)
    /\ pc' = "reported"
    /\ UNCHANGED <<target_city, max_pages, page_num, pages_to_scan, results, fetched,
                   ret, caller, prev, total_pages_available, validatorVars,
                   extractVars, nav>>
    /\ UNCHANGED <<delays, otherVars>>

\* `else:` the scan returned None
ReportNothing ==
    /\ pc = "returned"
    /\ ret.is_none
    /\ printed' = printed \o NothingMessages(caller)
    /\ pc' = "reported"
    /\ UNCHANGED <<target_city, max_pages, page_num, pages_to_scan, results, fetched,
                   ret, caller, prev, total_pages_available, validatorVars,
                   extractVars, nav>>
    /\ UNCHANGED <<delays, otherVars>>

Next ==
    \/ StartTestCheck
    \/ StartScheduledCheck
    \/ FetchFirstFail
    \/ FetchFirstOk
    \/ ScanPageFail
    \/ ScanPageOk
    \/ ScanReturn
    \/ ReportFound
    \/ ReportNothing

Spec == Init /\ [][Next]_vars

(***************************************************************************)
(* Claims about the scan (checked under Spec).                             *)
(***************************************************************************)
\* C6: in the result of one scan, aggregated over all scanned pages, no two
\* entries share the dedup key (title, first 100 characters of context).
C6_NoSharedDedupKey ==
    pc = "returned" =>
        \A i, j \in 1..Len(ret.value) :
            i # j => DedupKey(ret.value[i]) # DedupKey(ret.value[j])

\* C8: if the fetch of the first page fails, the scan is over at once with no
\* result: no further page is fetched, nothing is extracted, None is returned.
C8_FirstFetchFailureAborts ==
    (fetched # <<>> /\ ~fetched[1].ok) =>
        /\ pc \in {"returned", "reported"}
        /\ Len(fetched) = 1
        /\ \A k \in 1..Len(fetched) : ~fetched[k].extracted
        /\ results = <<>>
        /\ ret = NoReturn

C8_Witness ==
    /\ pc = "reported"
    /\ caller = "test_check"
    /\ max_pages > 1
    /\ fetched # <<>>
    /\ ~fetched[1].ok
    /\ ret.is_none

\* the entries of the fetches from position k on, failed fetches adding none
RECURSIVE AggregateFrom(_)
AggregateFrom(k) ==
    IF k > Len(fetched) THEN <<>>
    ELSE (IF fetched[k].ok
          THEN WithPageNumber(Entries[target_city, fetched[k].content],
                              fetched[k].page_num)
          ELSE <<>>) \o AggregateFrom(k + 1)

\* C9: once the first page is fetched, a failed fetch of a later page ends
\* nothing: pages 1..N are all fetched, in order, and the value returned
\* holds exactly the entries of the pages that were fetched successfully.
C9_LaterFailureSkipsPage ==
    (pc = "returned" /\ fetched[1].ok) =>
        /\ Len(fetched) = Max({1, pages_to_scan})
        /\ \A k \in 1..Len(fetched) : fetched[k].page_num = k
        /\ ret.value = AggregateFrom(1)
        /\ ret.is_none = (AggregateFrom(1) = <<>>)

C9_Witness ==
    /\ pc = "returned"
    /\ Len(fetched) = 3
    /\ fetched[1].ok
    /\ ~fetched[2].ok
    /\ fetched[3].ok
    /\ \E i, j \in 1..Len(ret.value) :
          ret.value[i].page_number = 1 /\ ret.value[j].page_number = 3

\* the url carries a page parameter
HasPageParameter(url) == Contains(url, <<"p", "a", "g", "e", "=">>)

\* the URL the claim names for page k, and whether it carries a page parameter
ClaimedUrl ==
    [k \in 1..MaxPagesSetting |->
        LET url == IF k = 1 THEN main_search_url
                   ELSE main_search_url \o <<"?", "p", "a", "g", "e", "=">> \o Decimal(k)
        IN [url |-> url, with_parameter |-> HasPageParameter(url)]]

\* C23: after a successful first-page fetch the pages one scan fetches are
\* exactly 1, 2, ..., N in this order, N = max(1, min(max_pages, estimated
\* count)), each once; page 1 is fetched at the search URL without a page
\* parameter, page k >= 2 at that URL followed by ?page=k; and no scan
\* fetches more than max_pages pages.
C23_PagesFetched ==
    LET N == Max({1, Min({max_pages, total_pages_available})}) IN
    /\ Len(fetched) <= max_pages
    /\ \A k \in 1..Len(fetched) :
          /\ fetched[k].page_num = k
          /\ fetched[k].url = ClaimedUrl[k].url
          /\ ClaimedUrl[k].with_parameter = (k >= 2)
    /\ (fetched # <<>> /\ fetched[1].ok) =>
          /\ Len(fetched) <= N
          /\ pc \in {"returned", "reported"} => Len(fetched) = N

\* the estimator counted more pages than max_pages allows
C23_Witness ==
    /\ pc = "returned"
    /\ fetched[1].ok
    /\ max_pages = 2
    /\ total_pages_available > max_pages
    /\ Len(fetched) = 2
    /\ fetched[2].url = main_search_url \o <<"?", "p", "a", "g", "e", "=", "2">>

\* the city name occurs as a whole word in the cleaned text of a page
NameInPage ==
    [city \in ScanCities, content \in ScanPool |->
        HasCityWord(CityChars[city],
                    get_text(remove_only_search_elements(Dom(city, content)), 0, FALSE))]

\* C24: for every fetched page, check_for_city_anywhere of b.py returns true
\* exactly when the city name occurs in the cleaned text of the page as a
\* whole word, case-insensitive, whatever else the page holds.
C24_GateIsNameMatch ==
    \A k \in 1..Len(fetched) :
        fetched[k].ok =>
            fetched[k].extracted = NameInPage[target_city, fetched[k].content]

\* C10: a check whose first-page fetch failed differs, in what the scan
\* returned or in what the caller printed, from a check of the same caller
\* that fetched its pages and found no validated match.
C10_FailureDistinguishable ==
    (/\ pc = "reported"
     /\ prev.caller = caller
     /\ {prev.cause, Cause} = {"fetch_failed", "zero_matches"})
    => <<prev.returned_none, prev.printed>> # <<ret.is_none, printed>>

\* C14: within one scan, between any two consecutive page fetches a delay
\* step (a call of time.sleep) occurs.
C14_DelayBetweenFetches ==
    \A k \in 1..(Len(delays) - 1) : delays[k] >= 1

\* the entries of a list that carry page number n
OfPage(list, n) == SelectSeq(list, LAMBDA e : e.page_number = n)

\* entry e is the entry ctx of a page, tagged with page number n
TaggedFrom(e, ctx, n) ==
    e = [title |-> ctx.title, link |-> ctx.link, context |-> ctx.context,
         page_url |-> ctx.page_url, page_number |-> n]

\* C17: each scanned page contributes at most 5 entries, every entry carries
\* the number of the page it was extracted from, and the aggregate lists the
\* contributions in page order (page_number never decreases along the list).
C17_PageContributions ==
    /\ \A n \in 1..Len(fetched) : Len(OfPage(results, n)) <= PageCap
    /\ \A i \in 1..Len(results) :
          LET n == results[i].page_number IN
          /\ n \in 1..Len(fetched)
          /\ fetched[n].ok
          /\ fetched[n].page_num = n
          /\ \E k \in 1..Len(Entries[target_city, fetched[n].content]) :
                TaggedFrom(results[i], Entries[target_city, fetched[n].content][k], n)
    /\ \A i \in 1..(Len(results) - 1) :
          results[i].page_number <= results[i + 1].page_number

\* a page with six distinct listings gave five entries, after another page
\* gave some
C17_Witness ==
    /\ pc = "returned"
    /\ target_city = "paris"
    /\ \E n \in 2..Len(fetched) :
          /\ fetched[n].ok
          /\ Len(CityTextNodes(target_city, Dom(target_city, fetched[n].content))) > PageCap
          /\ Len(OfPage(ret.value, n)) = PageCap
          /\ OfPage(ret.value, 1) # <<>>

\* the page holds a text node with the city as a whole word whose enclosing
\* element passes the Match Validator and yields a context of more than 10
\* characters
GenuineInPage ==
    [city \in ScanCities, content \in ScanPool |->
        LET dom == remove_only_search_elements(Dom(city, content)) IN
        \E i \in 1..Len(dom) :
            /\ IsText(dom, i)
            /\ HasCityWord(CityChars[city], dom[i].str)
            /\ Candidate(city, dom, i) # <<>>]

\* C28: no genuine listing is dropped by the page-level gate: a fetched page
\* that holds a text node with the city name whose enclosing element passes
\* the Match Validator and yields a context longer than 10 characters gives
\* the result at least one entry with that page's number, whatever else
\* stands on the page.
C28_GenuineListingKept ==
    \A k \in 1..Len(fetched) :
        (fetched[k].ok /\ GenuineInPage[target_city, fetched[k].content])
        => OfPage(results, fetched[k].page_num) # <<>>

\* the scan for paris is over and fetched one page, with the given content
ScenarioScan(content) ==
    /\ pc = "returned"
    /\ target_city = "paris"
    /\ Len(fetched) = 1
    /\ fetched[1].ok
    /\ fetched[1].content = content

\* the scan returned one entry: titled "Residence du Lac", its context
\* containing the postal code, from page 1
OneLacEntry ==
    /\ ~ret.is_none
    /\ Len(ret.value) = 1
    /\ ret.value[1].title = ResidenceDuLac
    /\ Contains(ret.value[1].context, LacCode("paris"))
    /\ ret.value[1].page_number = 1

Cooldown == 60

\* the wait between two scans lasts at most MaxIntervalSeconds seconds
MaxIntervalSeconds == 2

\* start_monitoring is chosen at most MaxThreads times
MaxThreads == 2

\* the seconds a thread slept after a stop are counted up to this number
LateCap == 2

\* a float that is a whole number of seconds
Seconds(n) == [kind |-> "finite", value |-> n]

\* float('nan') * 60
NotANumber == [kind |-> "nan"]

\* a thread that threading.Thread(target=self.monitoring_loop).start() begins
NewLoop ==
    [pc |-> "loop_head",          \* at `while self.monitoring`
     remaining |-> 0,             \* iterations left of the waiting for-loop
     found |-> FALSE,             \* the scan of the iteration returned a non-empty list
     sent |-> "none",             \* the alert of the iteration: "none", "sent", "failed"
     stopped_in_wait |-> FALSE,   \* history: monitoring was cleared while it waited
     late |-> 0]                  \* history: seconds slept since then

Threads == 1..Len(loops)

Waiting(t) == loops[t].pc \in {"wait", "sleeping", "cooldown"}

\* the seconds a thread has slept since a stop request interrupted its wait,
\* once a sleep of `seconds` seconds returns
LateAfter(l, seconds) ==
    IF l.stopped_in_wait /\ ~monitoring
    THEN Min({l.late + seconds, LateCap})
    ELSE l.late

InitMonitor ==
    /\ pc = "monitor"
    /\ target_city = "paris"
    /\ monitoring = FALSE
    /\ main_thread = "menu"
    /\ loops = <<>>
    /\ interval_seconds \in {Seconds(n) : n \in 0..MaxIntervalSeconds} \cup {NotANumber}
    /\ ValidatorIdle
    /\ ExtractIdle
    /\ PagesIdle
    /\ ScanIdle
    /\ LinkIdle
    /\ SettingsIdle

\* menu choice 1: the flag is set, a thread is started, the main thread
\* stays in `while self.monitoring: time.sleep(1)`
start_monitoring ==
    /\ main_thread = "menu"
    /\ ~monitoring
    /\ Len(loops) < MaxThreads
    /\ monitoring' = TRUE
    /\ loops' = Append([t \in Threads |->
                           [loops[t] EXCEPT !.stopped_in_wait = FALSE, !.late = 0]],
                       NewLoop)
    /\ main_thread' = "watching"
    /\ UNCHANGED <<pc, target_city, interval_seconds, scraperVars, linkVars, settings>>

\* Ctrl+C in the main thread: stop_monitoring clears the flag and returns
stop_monitoring ==
    /\ main_thread = "watching"
    /\ monitoring
    /\ monitoring' = FALSE
    /\ loops' = [t \in Threads |-> [loops[t] EXCEPT !.stopped_in_wait = Waiting(t)]]
    /\ main_thread' = "menu"
    /\ UNCHANGED <<pc, target_city, interval_seconds, scraperVars, linkVars, settings>>

\* menu choice 4: test_check calls the scan in the main thread
test_check ==
    /\ main_thread = "menu"
    /\ main_thread' = "test_check"
    /\ UNCHANGED <<pc, target_city, monitoring, loops, interval_seconds, scraperVars,
                   linkVars, settings>>

\* the scan of test_check returns and the menu is shown again
test_check_returns ==
    /\ main_thread = "test_check"
    /\ main_thread' = "menu"
    /\ UNCHANGED <<pc, target_city, monitoring, loops, interval_seconds, scraperVars,
                   linkVars, settings>>

\* the frame of a step of thread t
LoopStep(t, after) ==
    /\ loops' = [loops EXCEPT ![t] = after]
    /\ UNCHANGED <<pc, target_city, monitoring, main_thread, interval_seconds,
                   scraperVars, linkVars, settings>>

\* the iteration is entered whether the flag is set or not
LoopHead_unconditional ==
    \E t \in Threads :
        /\ loops[t].pc = "loop_head"
        /\ LoopStep(t, [loops[t] EXCEPT !.pc = "iteration"])

\* `while self.monitoring`: the flag is read; the iteration is entered, or
\* the thread ends
LoopHead ==
    \E t \in Threads :
        /\ loops[t].pc = "loop_head"
        /\ LoopStep(t, [loops[t] EXCEPT !.pc = IF monitoring THEN "iteration" ELSE "done"])

\* next_check is computed, "Starting scheduled check..." is printed and
\* scan_for_city_accommodations is called
ScanBegins ==
    \E t \in Threads :
        /\ loops[t].pc = "iteration"
        /\ LoopStep(t, [loops[t] EXCEPT !.pc = "scanning"])

\* scan_for_city_accommodations returns a non-empty list, or None
ScanReturns ==
    \E t \in Threads, list_found \in BOOLEAN :
        /\ loops[t].pc = "scanning"
        /\ LoopStep(t, [loops[t] EXCEPT !.pc = "reporting", !.found = list_found])

\* a send that returns False is handled like an exception
Alert_raises ==
    \E t \in Threads, ok \in BOOLEAN :
        /\ loops[t].pc = "reporting"
        /\ loops[t].found
        /\ LoopStep(t, [loops[t] EXCEPT !.pc = IF ok THEN "next_time" ELSE "cooldown",
                                        !.sent = IF ok THEN "sent" ELSE "failed"])

\* `if results:` the message is formatted and send_telegram_message is
\* called once; it returns True or False and the outcome is printed
Alert ==
    \E t \in Threads, ok \in BOOLEAN :
        /\ loops[t].pc = "reporting"
        /\ loops[t].found
        /\ LoopStep(t, [loops[t] EXCEPT !.pc = "next_time",
                                        !.sent = IF ok THEN "sent" ELSE "failed"])

\* `else:` "No valid listings" is printed
NoAlert ==
    \E t \in Threads :
        /\ loops[t].pc = "reporting"
        /\ ~loops[t].found
        /\ LoopStep(t, [loops[t] EXCEPT !.pc = "next_time", !.sent = "none"])

\* the next check time is printed and the waiting for-loop is set up
Report ==
    \E t \in Threads :
        /\ loops[t].pc = "next_time"
        /\ interval_seconds.kind = "finite"
        /\ LoopStep(t, [loops[t] EXCEPT !.pc = "wait",
                                        !.remaining = interval_seconds.value,
                                        !.found = FALSE, !.sent = "none"])

\* an exception ends the thread
ReportRaises_terminates ==
    \E t \in Threads :
        /\ loops[t].pc = "next_time"
        /\ interval_seconds.kind # "finite"
        /\ LoopStep(t, [loops[t] EXCEPT !.pc = "done", !.found = FALSE, !.sent = "none"])

\* timedelta(minutes=...) raises for an interval that is no finite number:
\* `except Exception` prints the error and calls time.sleep(60)
ReportRaises ==
    \E t \in Threads :
        /\ loops[t].pc = "next_time"
        /\ interval_seconds.kind # "finite"
        /\ LoopStep(t, [loops[t] EXCEPT !.pc = "cooldown",
                                        !.found = FALSE, !.sent = "none"])

\* one pass of `for remaining in range(...)`: the range is exhausted, or the
\* flag is found cleared (break), or time.sleep(1) is called
WaitCheck ==
    \E t \in Threads :
        /\ loops[t].pc = "wait"
        /\ LoopStep(t, [loops[t] EXCEPT
                          !.pc = IF loops[t].remaining = 0 \/ ~monitoring
                                 THEN "loop_head" ELSE "sleeping"])

\* time.sleep(1) returns
SleepEnds ==
    \E t \in Threads :
        /\ loops[t].pc = "sleeping"
        /\ LoopStep(t, [loops[t] EXCEPT !.pc = "wait", !.remaining = @ - 1,
                                        !.late = LateAfter(loops[t], 1)])

\* time.sleep(60) returns and the loop goes on
CooldownEnds ==
    \E t \in Threads :
        /\ loops[t].pc = "cooldown"
        /\ LoopStep(t, [loops[t] EXCEPT !.pc = "loop_head",
                                        !.late = LateAfter(loops[t], Cooldown)])

NextMonitor ==
    \/ start_monitoring
    \/ stop_monitoring
    \/ test_check
    \/ test_check_returns
    \/ LoopHead
    \/ ScanBegins
    \/ ScanReturns
    \/ Alert
    \/ NoAlert
    \/ Report
    \/ ReportRaises
    \/ WaitCheck
    \/ SleepEnds
    \/ CooldownEnds

SpecMonitor == InitMonitor /\ [][NextMonitor]_vars

(***************************************************************************)
(* Claims about the monitor (checked under SpecMonitor).                   *)
(***************************************************************************)
\* the scans in flight: those of the loop threads and that of test_check
ScansInFlight ==
    Cardinality({t \in Threads : loops[t].pc = "scanning"})
    + (IF main_thread = "test_check" THEN 1 ELSE 0)

\* C11: for one monitor instance at most one scan is in flight at any time,
\* under every interleaving of start, stop, restart and test-check requests
\* with the background threads.
C11_SingleScanInFlight == ScansInFlight <= 1

\* C12: a thread that was waiting between two scans when the stop request
\* cleared the flag sleeps at most one further second, in the interval wait
\* as in the wait that follows a failed iteration.
C12_StopWithinOneSleep ==
    \A t \in Threads : loops[t].late <= 1

\* C13: an exception raised in an iteration never ends the thread: it is
\* followed by the cooldown, then by the test of the flag (after which the
\* thread goes on to scan again if the flag is set), and a thread only ends
\* by finding the flag cleared at that test.
C13_ExceptionCaught ==
    [][\A t \in Threads :
          /\ (loops[t].pc = "next_time" /\ loops'[t].pc \notin {"next_time", "wait"})
                => loops'[t].pc = "cooldown"
          /\ (loops[t].pc = "cooldown" /\ loops'[t].pc # "cooldown")
                => loops'[t].pc = "loop_head"
          /\ (loops[t].pc = "loop_head" /\ loops'[t].pc # "loop_head")
                => loops'[t].pc = (IF monitoring THEN "iteration" ELSE "done")
          /\ (loops[t].pc # "done" /\ loops'[t].pc = "done")
                => (loops[t].pc = "loop_head" /\ ~monitoring)]_vars

C13_Witness ==
    \E t \in Threads :
        /\ loops[t].pc = "cooldown"
        /\ monitoring

\* C27 (as stated): once the flag is cleared and not set again, no thread
\* begins a scan, whatever the thread was doing when the flag was cleared.
C27_NoScanAfterStop ==
    [][\A t \in Threads :
          (loops[t].pc # "scanning" /\ loops'[t].pc = "scanning") => monitoring]_vars

\* C27 (amended): a thread begins a scan only in an iteration it entered by
\* reading the flag as set; so once the flag is cleared and not set again, a
\* thread that was scanning, reporting, waiting or in the cooldown begins no
\* further scan, and a thread that had read the flag and not yet called the
\* scan begins that one scan and no other.
C27_NoScanAfterNextTest ==
    [][\A t \in Threads :
          /\ (loops[t].pc # "scanning" /\ loops'[t].pc = "scanning")
                => loops[t].pc = "iteration"
          /\ (loops[t].pc # "iteration" /\ loops'[t].pc = "iteration")
                => (loops[t].pc = "loop_head" /\ monitoring)
          /\ (loops[t].pc = "loop_head" /\ ~monitoring /\ loops'[t].pc # "loop_head")
                => loops'[t].pc = "done"
          /\ loops[t].pc = "done" => loops'[t].pc = "done"]_vars

\* the stop request found the thread waiting, and the thread has ended
C27_Witness ==
    \E t \in Threads :
        /\ ~monitoring
        /\ loops[t].stopped_in_wait
        /\ loops[t].pc = "done"

MaxHrefTail == 3

\* how a href begins: a relative path, a path from the root, a fragment, an
\* absolute URL, a relative path whose first letters are "http"
HrefPrefixes ==
    {<<>>,
     <<"/">>,
     <<"#">>,
     <<"h", "t", "t", "p", "s", ":", "/", "/", "h", "/">>,
     <<"h", "t", "t", "p">>}

RECURSIVE HrefTails(_)
HrefTails(n) ==
    IF n = 0 THEN {<<>>}
    ELSE LET shorter == HrefTails(n - 1) IN
         shorter \cup {t \o <<c>> : t \in shorter, c \in {"x", "y"}}

\* the hrefs an anchor may carry; the empty one stands for a missing one too
Hrefs == {p \o t : p \in HrefPrefixes, t \in HrefTails(MaxHrefTail)}

\* <a href=...><span>Paris 75013</span></a>: the container is the span
AnchorDom(h) ==
    <<Elem("a", 0, "", h),
      Elem("span", 1, "", NoHref),
      TextNode(2, <<"P", "a", "r", "i", "s", " ", "7", "5", "0", "1", "3">>)>>

\* c.py: href as it is if it starts with 'http', else base_url + href if it
\* starts with '/', else base_url + '/' + href; "" without a href
c_link(h) ==
    IF h = <<>> THEN <<>>
    ELSE IF StartsWith(h, <<"h", "t", "t", "p">>) THEN h
    ELSE IF StartsWith(h, <<"/">>) THEN base_url \o h
    ELSE base_url \o <<"/">> \o h

InitLink ==
    /\ pc = "link"
    /\ target_city = "paris"
    /\ anchor_href \in Hrefs
    /\ link = <<>>
    /\ ValidatorIdle
    /\ ExtractIdle
    /\ PagesIdle
    /\ ScanIdle
    /\ MonitorIdle
    /\ SettingsIdle

\* b.py builds the link of the entry
BuildLinkB ==
    /\ pc = "link"
    /\ link' = LinkOf(AnchorDom(anchor_href), 2)
    /\ pc' = "linked_b"
    /\ UNCHANGED <<target_city, anchor_href, scraperVars, monitorVars, settings>>

\* c.py builds the link of the entry
BuildLinkC ==
    /\ pc = "link"
    /\ link' = c_link(anchor_href)
    /\ pc' = "linked_c"
    /\ UNCHANGED <<target_city, anchor_href, scraperVars, monitorVars, settings>>

NextLink == BuildLinkB \/ BuildLinkC

SpecLink == InitLink /\ [][NextLink]_vars

\* an absolute URL: http:// or https:// followed by a host
IsAbsoluteUrl(url) ==
    \E scheme \in {<<"h", "t", "t", "p">>, <<"h", "t", "t", "p", "s">>} :
        /\ StartsWith(url, scheme \o <<":", "/", "/">>)
        /\ Len(url) > Len(scheme) + 3

\* C16: every entry's link is either empty or an absolute URL, whatever the
\* shape of the chosen anchor's href (absolute, root-relative, path-relative,
\* fragment-only, empty), and it is empty exactly when the anchor has no
\* non-empty href; for the link of b.py as for that of c.py.
C16_LinkEmptyOrAbsolute ==
    pc \in {"linked_b", "linked_c"} =>
        /\ (link = <<>>) = (anchor_href = <<>>)
        /\ link # <<>> => IsAbsoluteUrl(link)

(***************************************************************************)
(* CROUSMonitorTerminal.configure_settings: the two numeric prompts.  An   *)
(* answer is a sequence of characters; a float is mantissa / 10^frac, or   *)
(* nan, inf, -inf.                                                         *)
(***************************************************************************)
\* 'interval_minutes': 30
DefaultInterval == 30

\* 'max_pages': 5
DefaultMaxPages == 5

\* if 1 <= pages <= 50
MinPages == 1

MaxPages == 50

\* an answer typed at a prompt has at most MaxInputLen characters
MaxInputLen == 3

DigitValue(c) == (CHOOSE i \in 1..10 : DigitSeq[i] = c) - 1

\* the number a string of digits denotes
RECURSIVE Number(_)
Number(d) ==
    IF d = <<>> THEN 0
    ELSE 10 * Number(SubSeq(d, 1, Len(d) - 1)) + DigitValue(d[Len(d)])

IsDigits(d) == d # <<>> /\ \A i \in 1..Len(d) : IsDigit(d[i])

\* a float written without trailing zeros in its fraction
RECURSIVE Normal(_, _)
Normal(mantissa, frac) ==
    IF mantissa = 0 THEN [kind |-> "finite", mantissa |-> 0, frac |-> 0]
    ELSE IF frac > 0 /\ mantissa % 10 = 0 THEN Normal(mantissa \div 10, frac - 1)
    ELSE [kind |-> "finite", mantissa |-> mantissa, frac |-> frac]

\* the value of a call that raised ValueError
Invalid == [kind |-> "ValueError"]

\* int(s) for a stripped s: an optional minus sign and digits
ParseInt(s) ==
    LET negative == s # <<>> /\ s[1] = "-"
        body == IF negative THEN Tail(s) ELSE s
    IN IF IsDigits(body)
       THEN [kind |-> "int", value |-> IF negative THEN -Number(body) ELSE Number(body)]
       ELSE Invalid

\* float(s) for a stripped s: nan, inf, or an optional minus sign and digits
\* with at most one decimal point
ParseFloat(s) ==
    LET negative == s # <<>> /\ s[1] = "-"
        body == IF negative THEN Tail(s) ELSE s
        dots == {i \in 1..Len(body) : body[i] = "."}
        digits == SelectSeq(body, IsDigit)
    IN IF LowerText(body) = <<"n", "a", "n">> THEN [kind |-> "nan"]
       ELSE IF LowerText(body) = <<"i", "n", "f">>
            THEN [kind |-> IF negative THEN "-inf" ELSE "inf"]
       ELSE IF /\ Cardinality(dots) <= 1
               /\ digits # <<>>
               /\ Len(digits) + Cardinality(dots) = Len(body)
            THEN Normal(IF negative THEN -Number(digits) ELSE Number(digits),
                        IF dots = {} THEN 0 ELSE Len(body) - Min(dots))
            ELSE Invalid

\* the characters typed at a prompt
InputChars == {"-", "0", "1", "5", ".", " ", "x"}

RECURSIVE Typed(_)
Typed(n) ==
    IF n = 0 THEN {<<>>}
    ELSE LET shorter == Typed(n - 1) IN
         shorter \cup {t \o <<c>> : t \in shorter, c \in InputChars}

\* what the user may answer
Inputs ==
    Typed(MaxInputLen) \cup {<<"n", "a", "n">>, <<"i", "n", "f">>, <<"-", "i", "n", "f">>}

InitConfig ==
    /\ pc = "menu"
    /\ target_city = "paris"
    /\ settings = [interval_minutes |-> Normal(DefaultInterval, 0),
                   max_pages |-> DefaultMaxPages]
    /\ ValidatorIdle
    /\ ExtractIdle
    /\ PagesIdle
    /\ ScanIdle
    /\ MonitorIdle
    /\ LinkIdle

\* menu choice 2: the prompts for the city, the token and the chat id are
\* answered (they do not touch the two numbers)
configure_settings ==
    /\ pc = "menu"
    /\ pc' = "ask_interval"
    /\ UNCHANGED <<target_city, settings, scraperVars, monitorVars, linkVars>>

\* the prompt for the interval: a non-empty answer that float() accepts is
\* stored, any other keeps the previous value
AnswerInterval ==
    /\ pc = "ask_interval"
    /\ \E answer \in Inputs :
          LET interval == Strip(answer)
              value == ParseFloat(interval)
          IN settings' =
                 IF interval # <<>> /\ value # Invalid
                 THEN [settings EXCEPT !.interval_minutes = value]
                 ELSE settings
    /\ pc' = "ask_max_pages"
    /\ UNCHANGED <<target_city, scraperVars, monitorVars, linkVars>>

\* the prompt for the page count: a non-empty answer that int() accepts and
\* that lies in 1..50 is stored, any other keeps the previous value; the
\* settings are saved
AnswerMaxPages ==
    /\ pc = "ask_max_pages"
    /\ \E answer \in Inputs :
          LET pages == ParseInt(Strip(answer))
          IN settings' =
                 IF /\ Strip(answer) # <<>>
                    /\ pages # Invalid
                    /\ MinPages <= pages.value
                    /\ pages.value <= MaxPages
                 THEN [settings EXCEPT !.max_pages = pages.value]
                 ELSE settings
    /\ pc' = "menu"
    /\ UNCHANGED <<target_city, scraperVars, monitorVars, linkVars>>

NextConfig == configure_settings \/ AnswerInterval \/ AnswerMaxPages

SpecConfig == InitConfig /\ [][NextConfig]_vars

\* the float is a number greater than zero
IsPositive(v) == v.kind = "inf" \/ (v.kind = "finite" /\ v.mantissa > 0)

\* C19: from the default settings, after any sequence of configure_settings
\* calls with arbitrary answers, interval_minutes is a positive number and
\* max_pages is an integer in 1..50.
C19_SettingsInRange ==
    /\ IsPositive(settings.interval_minutes)
    /\ settings.max_pages \in MinPages..MaxPages

(***************************************************************************)
(* c.py (ultra-simple version): the test that decides whether a listing    *)
(* element is reported, applied to the text of one element.                *)
(***************************************************************************)
\* c.py's city_prefixes holds the cities and the two digits of b.py's table
city_prefixes == city_postal_codes

\* positions where rf'\b{required_prefix}\d{{3}}\b' matches t
FullPostalMatches(prefix, t) ==
    {i \in PostalMatches(t) : PrefixAt(t, i) = prefix}

\* `if (has_city and has_prefix) or has_full_postal`; a city without a
\* prefix makes the scan return None before any page is read
listing_reported(city, listing_text) ==
    IF city \notin DOMAIN city_prefixes THEN FALSE
    ELSE LET required_prefix == city_prefixes[city]
             has_city == HasCityWord(CityChars[city], listing_text)
             has_prefix == Contains(listing_text, required_prefix)
             has_full_postal == FullPostalMatches(required_prefix, listing_text) # {}
         IN (has_city /\ has_prefix) \/ has_full_postal

InitSimple ==
    /\ pc = "filter"
    /\ target_city \in TargetCities
    /\ text \in Blocks(target_city, MaxFrags)
    /\ verdict = FALSE
    /\ ExtractIdle
    /\ PagesIdle
    /\ ScanIdle
    /\ OthersIdle

\* one listing element is tested
Filter ==
    /\ pc = "filter"
    /\ verdict' = listing_reported(target_city, text)
    /\ pc' = "filtered"
    /\ UNCHANGED <<target_city, text, extractVars, nav, total_pages_available, scanVars,
                   otherVars>>

NextSimple == Filter

SpecSimple == InitSimple /\ [][NextSimple]_vars

\* C20: c.py reports a listing element only if its text contains both the
\* target city name as a whole word and the city's postal-code prefix; a
\* listing whose text lacks the city name is never reported.
C20_ReportedOnlyWithNameAndPrefix ==
    (pc = "filtered" /\ verdict) =>
        /\ BlockHasName
        /\ Contains(text, city_prefixes[target_city])

(***************************************************************************)
(* main.py (GUI version): the Start and Stop buttons and the threads that  *)
(* run CROUSMonitorGUI.monitoring_loop.  A scan is one step that begins    *)
(* and one that ends; the seconds of the waiting for-loop are not counted. *)
(***************************************************************************)
\* datetime.now().minute lies in 0..LastMinute, and datetime.replace accepts
\* no other minute
LastMinute == 59

\* what the interval entry of the window may hold
IntervalEntries ==
    {<<>>, <<"x">>, <<"0">>, <<"-", "1">>, <<"0", ".", "5">>, <<"1">>, <<"5">>,
     <<"5", "9">>, <<"6", "0">>, <<"n", "a", "n">>, <<"i", "n", "f">>}

\* what the max-pages entry of the window may hold
MaxPagesEntries == {<<"0">>, <<"1">>, <<"5", "1">>}

RECURSIVE PowerOfTen(_)
PowerOfTen(n) == IF n = 0 THEN 1 ELSE 10 * PowerOfTen(n - 1)

\* `interval_minutes <= 0` for a float; every comparison with nan is False
NotPositive(v) ==
    \/ v.kind = "-inf"
    \/ v.kind = "finite" /\ v.mantissa <= 0

\* int(v) for a float: the whole part of a number, ValueError for nan,
\* OverflowError for an infinity
IntOfFloat(v) ==
    IF v.kind = "finite"
    THEN [kind |-> "int",
          value |-> IF v.mantissa >= 0
                    THEN v.mantissa \div PowerOfTen(v.frac)
                    ELSE -((-v.mantissa) \div PowerOfTen(v.frac))]
    ELSE IF v.kind = "nan" THEN Invalid
    ELSE [kind |-> "OverflowError"]

\* interval_minutes * 60
TimesSixty(v) ==
    IF v.kind = "finite" THEN Normal(60 * v.mantissa, v.frac) ELSE v

\* a thread that threading.Thread(target=self.monitoring_loop,
\* args=(interval_minutes, max_pages)).start() begins
NewGuiLoop(minutes, pages) ==
    [pc |-> "loop_head",              \* at `while self.monitoring`
     interval_minutes |-> minutes,    \* the first argument
     max_pages |-> pages,             \* the second argument
     now_minute |-> 0,                \* datetime.now().minute of the iteration
     scanned |-> FALSE]               \* history: the iteration has called the scan

InitGui ==
    /\ pc = "window"
    /\ target_city = "paris"
    /\ monitoring = FALSE
    /\ main_thread = "mainloop"
    /\ loops = <<>>
    /\ interval_seconds = [kind |-> "finite", value |-> 0]
    /\ ValidatorIdle
    /\ ExtractIdle
    /\ PagesIdle
    /\ ScanIdle
    /\ LinkIdle
    /\ SettingsIdle

\* the Start button (enabled while the flag is clear): an interval that
\* float() rejects or that is <= 0, or a page count outside 1..50, shows an
\* error and returns; any other sets the flag and starts a thread
gui_start_monitoring ==
    /\ main_thread = "mainloop"
    /\ ~monitoring
    /\ Len(loops) < MaxThreads
    /\ \E interval_str \in IntervalEntries, max_pages_str \in MaxPagesEntries :
          LET minutes == ParseFloat(Strip(interval_str))
              pages == ParseInt(Strip(max_pages_str))
          IN IF \/ Strip(interval_str) = <<>>
                \/ minutes = Invalid
                \/ NotPositive(minutes)
                \/ pages = Invalid
                \/ pages.value < MinPages
                \/ pages.value > MaxPages
             THEN UNCHANGED <<monitoring, loops>>
             ELSE /\ monitoring' = TRUE
                  /\ loops' = Append(loops, NewGuiLoop(minutes, pages.value))
    /\ UNCHANGED <<pc, target_city, main_thread, interval_seconds, scraperVars, linkVars,
                   settings>>

\* the Stop button (enabled while the flag is set) clears the flag
gui_stop_monitoring ==
    /\ main_thread = "mainloop"
    /\ monitoring
    /\ monitoring' = FALSE
    /\ UNCHANGED <<pc, target_city, main_thread, loops, interval_seconds, scraperVars,
                   linkVars, settings>>

\* `while self.monitoring`: a set flag enters the iteration, which reads the
\* clock; a cleared flag ends the thread
GuiLoopHead ==
    /\ \E t \in Threads :
          /\ loops[t].pc = "loop_head"
          /\ IF monitoring
             THEN \E minute \in 0..LastMinute :
                     loops' = [loops EXCEPT ![t].pc = "next_check",
                                            ![t].now_minute = minute,
                                            ![t].scanned = FALSE]
             ELSE loops' = [loops EXCEPT ![t].pc = "done"]
    /\ UNCHANGED <<pc, target_city, monitoring, main_thread, interval_seconds,
                   scraperVars, linkVars, settings>>

\* next_check.replace(minute=next_check.minute + int(interval_minutes)):
\* int() raises for nan and the infinities, replace() raises ValueError for
\* a minute past LastMinute, and the handler sleeps; else the scan is called
GuiNextCheck ==
    /\ \E t \in Threads :
          /\ loops[t].pc = "next_check"
          /\ LET step == IntOfFloat(loops[t].interval_minutes)
                 raises == \/ step.kind # "int"
                           \/ loops[t].now_minute + step.value > LastMinute
             IN loops' = [loops EXCEPT
                    ![t].pc = IF raises THEN "cooldown" ELSE "scanning",
                    ![t].scanned = ~raises,
                    ![t].now_minute = 0]
    /\ UNCHANGED <<pc, target_city, monitoring, main_thread, interval_seconds,
                   scraperVars, linkVars, settings>>

\* the scan returns, the outcome is logged (and sent if there is one), and
\* the waiting for-loop begins; range(int(interval_seconds), 0, -1) is empty
\* for an interval of less than a second
GuiScanReturns ==
    /\ \E t \in Threads :
          /\ loops[t].pc = "scanning"
          /\ loops' = [loops EXCEPT ![t].pc =
                 IF IntOfFloat(TimesSixty(loops[t].interval_minutes)).value > 0
                 THEN "wait" ELSE "loop_head"]
    /\ UNCHANGED <<pc, target_city, monitoring, main_thread, interval_seconds,
                   scraperVars, linkVars, settings>>

\* one turn of the waiting for-loop: a cleared flag breaks it, a set one
\* sleeps a second, after which the loop goes on or has run out
GuiWaitCheck ==
    /\ \E t \in Threads :
          /\ loops[t].pc = "wait"
          /\ \E last \in BOOLEAN :
                loops' = [loops EXCEPT ![t].pc =
                       IF ~monitoring \/ last THEN "loop_head" ELSE "wait"]
    /\ UNCHANGED <<pc, target_city, monitoring, main_thread, interval_seconds,
                   scraperVars, linkVars, settings>>

\* time.sleep(60) of the handler returns
GuiCooldownEnds ==
    /\ \E t \in Threads :
          /\ loops[t].pc = "cooldown"
          /\ loops' = [loops EXCEPT ![t].pc = "loop_head"]
    /\ UNCHANGED <<pc, target_city, monitoring, main_thread, interval_seconds,
                   scraperVars, linkVars, settings>>

NextGui ==
    \/ gui_start_monitoring
    \/ gui_stop_monitoring
    \/ GuiLoopHead
    \/ GuiNextCheck
    \/ GuiScanReturns
    \/ GuiWaitCheck
    \/ GuiCooldownEnds

SpecGui == InitGui /\ [][NextGui]_vars

\* C30: in the GUI's monitoring_loop, for every interval start_monitoring
\* accepts and every minute 0..59 of the clock at the start of an iteration,
\* the iteration calls the scan before it waits: a thread that waits, in the
\* for-loop or in the handler's sleep, has scanned in this iteration (and so,
\* while the flag stays set, a scan is eventually performed).
C30_ScanBeforeWait ==
    \A t \in Threads :
        loops[t].pc \in {"wait", "cooldown"} => loops[t].scanned

====
